---- MODULE Spec2Model ----
(***************************************************************************)
(* Model of run_bc.py: the training / evaluation control loop train_agent, *)
(* the rollout evaluator eval_policy and the __main__ entry point.         *)
(*                                                                         *)
(* Numbers the code holds as floats are exact rationals <<n, d>>, d > 0,   *)
(* in lowest terms.  A standard deviation is carried as its square (the    *)
(* population variance): np.std(x) = sqrt(np_var(x)) and sqrt is injective *)
(* on the non-negative reals, so two deviations are equal exactly when the *)
(* model's values are.  Float rounding is not modelled.                    *)
(***************************************************************************)
EXTENDS Integers, Sequences, FiniteSets, TLC

\* ------------------------------------------------------------------ bounds
MaxEpochs == 3
MaxStepsPerEpoch == 2
MaxEvalFreq == 3
MaxEpisodes == 3
MaxEpisodeLen == 2

\* The loop of train_agent has no bound of its own when eval_freq = 0; the
\* model stops a run after CycleCap cycles.  No run with eval_freq >= 1 has
\* more than MaxEpochs cycles, so the cap only ever cuts eval_freq = 0 runs.
CycleCap == MaxEpochs + 1

\* ------------------------------------------------------------------ rationals
\* The arithmetic is written as functions, whose arguments TLC evaluates
\* once, before the application.
Rat == Int \X Int

Abs(n) == IF n < 0 THEN -n ELSE n

GCD[a \in Nat, b \in Nat] == IF b = 0 THEN a ELSE GCD[b, a % b]

Norm[n \in Int, d \in Int] ==
    LET g == GCD[Abs(n), d] IN <<n \div g, d \div g>>

R(n) == <<n, 1>>
RAdd[x \in Rat, y \in Rat] == Norm[x[1] * y[2] + y[1] * x[2], x[2] * y[2]]
RSub[x \in Rat, y \in Rat] == Norm[x[1] * y[2] - y[1] * x[2], x[2] * y[2]]
RMul[x \in Rat, y \in Rat] == Norm[x[1] * y[1], x[2] * y[2]]
RDivInt[x \in Rat, k \in Int] == Norm[x[1], x[2] * k]
RLess(x, y) == x[1] * y[2] < y[1] * x[2]
RGeq(x, y) == x[1] * y[2] >= y[1] * x[2]

RSumTo[xs \in Seq(Rat), n \in Nat] == IF n = 0 THEN R(0) ELSE RAdd[RSumTo[xs, n - 1], xs[n]]

RSum(xs) == RSumTo[xs, Len(xs)]

\* np.mean of a non-empty list
np_mean[xs \in Seq(Rat)] == RDivInt[RSum(xs), Len(xs)]

\* np.std of a non-empty list, as its square: mean(abs(x - x.mean()) ** 2)
np_std[xs \in Seq(Rat)] ==
    LET m == np_mean[xs]
        dev == [i \in 1..Len(xs) |-> RMul[RSub[xs[i], m], RSub[xs[i], m]]]
    IN  np_mean[dev]

\* ------------------------------------------------------------------ inputs
\* --algo values the dispatch of train_agent knows; "pcq" is the value the
\* parser's comment offers that no branch matches.
KnownAlgos == {"bc", "bc_mle", "bc_cvae", "bc_kl", "bc_mmd", "bc_w", "bc_gan", "bc_gan2"}
AlgoInputs == {"bc_gan2", "pcq"}

\* Environments by the behaviour of the gym / d4rl calls the program makes:
\*   "unregistered"  gym.make raises
\*   "noref"         no reference scores: get_normalized_score raises
\*   "scaled"        get_normalized_score(s) = s / 100
\*   "affine"        get_normalized_score(s) = (s - 10) / (30 - 10)
\*   "clipped"       get_normalized_score(s) = max(s - 15, 0) / (35 - 15)
Registered(env) == env # "unregistered"
HasRef(env) == env \in {"scaled", "affine", "clipped"}

get_normalized_score[env \in STRING, s \in Rat] ==
    CASE env = "scaled"  -> RDivInt[s, 100]
      [] env = "affine"  -> RDivInt[RSub[s, R(10)], 20]
      [] env = "clipped" -> IF RLess(s, R(15)) THEN R(0) ELSE RDivInt[RSub[s, R(15)], 20]

\* Raw returns of the episodes of one evaluation, as the controller sees them.
EvalInputs ==
    { <<-20000, -20000>>, <<-10100, -9900>>, <<10, 30>>, <<20, 20>> }

\* Rewards of one environment step.
StepRewards == {10, 20}

\* ------------------------------------------------------------------ pure parts
\* line 152-160: the aggregation of eval_policy over the raw returns
avg_norm_mean_of_norm(env, rs) ==
    np_mean[[i \in 1..Len(rs) |-> get_normalized_score[env, rs[i]]]]

\* line 156
avg_norm_score(env, rs) == get_normalized_score[env, np_mean[rs]]

eval_policy_result(env, raw) ==
    LET rs == [i \in 1..Len(raw) |-> R(raw[i])]
        normalized_scores == [i \in 1..Len(rs) |-> get_normalized_score[env, rs[i]]]
    IN  << np_mean[rs], np_std[rs], avg_norm_score(env, rs), np_std[normalized_scores] >>

\* line 106
best_score_init == R(-100)

\* line 105
MaxTimesteps(a) == a.num_epochs * a.num_steps_per_epoch

\* line 107
LoopCond_le(ti, mt) == ti <= mt
LoopCond(ti, mt) == ti < mt

\* line 108
Iterations_freq(a) == a.eval_freq
Iterations(a) == a.eval_freq * a.num_steps_per_epoch

\* line 113
AdvanceIters_none(ti, it) == ti
AdvanceIters(ti, it) == ti + it

\* line 114
CurrEpoch(ti, a) == ti \div a.num_steps_per_epoch

\* line 119
AppendEval_replace(evs, rec) == IF evs = <<>> THEN <<rec>> ELSE [evs EXCEPT ![Len(evs)] = rec]
AppendEval(evs, rec) == Append(evs, rec)

\* line 126
IsBetter_strict(new, best) == RGeq(new, best) /\ new # best
IsBetter(new, best) == RGeq(new, best)

\* line 129-131
best_res(rec, epoch) ==
    [ epoch |-> epoch,
      best_normalized_score_avg |-> rec[3],
      best_normalized_score_std |-> rec[4],
      best_raw_score_avg |-> rec[1],
      best_raw_score_std |-> rec[2] ]

\* line 126-133: the selection step on the decision state
\*   st = [best_score, best_file, model_file], a file being <<>> (absent) or
\*   <<content>>; params is what agent.save_model would write.
consider_flagged(st, flag, rec, epoch, params) ==
    IF IsBetter(rec[3], st.best_score) /\ flag
    THEN [ best_score |-> rec[3],
           best_file  |-> << best_res(rec, epoch) >>,
           model_file |-> << params >> ]
    ELSE st

consider(st, flag, rec, epoch, params) ==
    IF IsBetter(rec[3], st.best_score)
    THEN [ best_score |-> rec[3],
           best_file  |-> << best_res(rec, epoch) >>,
           model_file |-> IF flag THEN << params >> ELSE st.model_file ]
    ELSE st

\* ------------------------------------------------------------------ state
VARIABLES
    args,           \* the parsed command line
    pc,             \* position of the program
    err,            \* the exception that ended the run, "" when none
    agent,          \* the class bound to `agent`, "unbound" when no branch matched
    agent_steps,    \* optimisation steps the agent's parameters have taken
    iterations,     \* line 108
    training_iters, \* line 104, 113
    max_timesteps,  \* line 105
    curr_epoch,     \* line 114
    eval_res,       \* line 117: the 4-tuple eval_policy returned
    evaluations,    \* line 103, 119
    best_score,     \* line 106, 128
    eval_file,      \* eval.npy: <<>> or <<the saved list>>
    best_file,      \* best_score.txt: <<>> or <<the saved record>>
    model_file,     \* the checkpoint save_model wrote: <<>> or <<agent_steps>>
    twin,           \* decision state of the run that differs only in save_best_model
    events,         \* the observable calls so far, in order
    train_calls,    \* the iterations argument of every agent.train call
    epochs,         \* curr_epoch of every cycle that appended an evaluation
    ev_pc,          \* position inside eval_policy
    scores,         \* line 142, 150
    traj_return,    \* line 144, 149
    done,           \* line 145, 148
    ret,            \* what eval_policy returned: <<>> or the 4-tuple
    resets,         \* eval_env.reset() calls
    rewards_log     \* the rewards of every step, per episode

ctl_vars == << args, pc, err, agent, agent_steps, iterations, training_iters,
               max_timesteps, curr_epoch, eval_res, evaluations, best_score,
               eval_file, best_file, model_file, twin, events, train_calls, epochs >>
ev_vars == << ev_pc, scores, traj_return, done, ret, resets, rewards_log >>
vars == << ctl_vars, ev_vars >>

decision == [ best_score |-> best_score, best_file |-> best_file, model_file |-> model_file ]

\* num_steps_per_epoch starts at 1: with 0 the budget is empty and line 114,
\* which divides by it, is never reached.
ArgSpace ==
    [ num_epochs : 0..MaxEpochs,
      num_steps_per_epoch : 1..MaxStepsPerEpoch,
      eval_freq : 0..MaxEvalFreq,
      eval_episodes : {2},
      save_best_model : BOOLEAN,
      algo : AlgoInputs,
      env_name : {"unregistered", "noref", "scaled"} ]

EvIdle ==
    /\ ev_pc = "idle"
    /\ scores = <<>>
    /\ traj_return = 0
    /\ done = FALSE
    /\ ret = <<>>
    /\ resets = 0
    /\ rewards_log = <<>>

\* The program at line 220, the command line parsed.
Init ==
    /\ args \in ArgSpace
    /\ pc = "main"
    /\ err = ""
    /\ agent = "unbound"
    /\ agent_steps = 0
    /\ iterations = 0
    /\ training_iters = 0
    /\ max_timesteps = 0
    /\ curr_epoch = 0
    /\ eval_res = <<>>
    /\ evaluations = <<>>
    /\ best_score = best_score_init
    /\ eval_file = <<>>
    /\ best_file = <<>>
    /\ model_file = <<>>
    /\ twin = [ best_score |-> best_score_init, best_file |-> <<>>, model_file |-> <<>> ]
    /\ events = <<>>
    /\ train_calls = <<>>
    /\ epochs = <<>>
    /\ EvIdle

Raise(e) ==
    /\ pc' = "Error"
    /\ err' = e

\* ------------------------------------------------------------------ __main__
\* line 220: gym.make(args.env_name)
MakeEnv ==
    /\ pc = "main"
    /\ Registered(args.env_name)
    /\ pc' = "dispatch"
    /\ UNCHANGED << args, err, agent, agent_steps, iterations, training_iters,
                    max_timesteps, curr_epoch, eval_res, evaluations, best_score,
                    eval_file, best_file, model_file, twin, events, train_calls, epochs >>
    /\ UNCHANGED ev_vars

MakeEnvFails ==
    /\ pc = "main"
    /\ ~Registered(args.env_name)
    /\ Raise("gym.error.Error")
    /\ UNCHANGED << args, agent, agent_steps, iterations, training_iters,
                    max_timesteps, curr_epoch, eval_res, evaluations, best_score,
                    eval_file, best_file, model_file, twin, events, train_calls, epochs >>
    /\ UNCHANGED ev_vars

\* ------------------------------------------------------------------ train_agent
\* line 23-106: the dispatch on args.algo (no else branch) and the loop's
\* initial values
Dispatch ==
    /\ pc = "dispatch"
    /\ agent' = IF args.algo \in KnownAlgos THEN args.algo ELSE "unbound"
    /\ evaluations' = <<>>
    /\ training_iters' = 0
    /\ max_timesteps' = MaxTimesteps(args)
    /\ best_score' = best_score_init
    /\ pc' = "loop"
    /\ UNCHANGED << args, err, agent_steps, iterations, curr_epoch, eval_res,
                    eval_file, best_file, model_file, twin, events, train_calls, epochs >>
    /\ UNCHANGED ev_vars

\* line 107, condition true
LoopEnter ==
    /\ pc = "loop"
    /\ LoopCond(training_iters, max_timesteps)
    /\ Len(evaluations) < CycleCap
    /\ pc' = "train"
    /\ UNCHANGED << args, err, agent, agent_steps, iterations, training_iters,
                    max_timesteps, curr_epoch, eval_res, evaluations, best_score,
                    eval_file, best_file, model_file, twin, events, train_calls, epochs >>
    /\ UNCHANGED ev_vars

\* line 107, condition false: train_agent returns
LoopExit ==
    /\ pc = "loop"
    /\ ~LoopCond(training_iters, max_timesteps)
    /\ pc' = "Done"
    /\ UNCHANGED << args, err, agent, agent_steps, iterations, training_iters,
                    max_timesteps, curr_epoch, eval_res, evaluations, best_score,
                    eval_file, best_file, model_file, twin, events, train_calls, epochs >>
    /\ UNCHANGED ev_vars

\* line 108-112: agent.train(data_sampler, iterations, batch_size)
Train ==
    /\ pc = "train"
    /\ agent # "unbound"
    /\ iterations' = Iterations(args)
    /\ agent_steps' = agent_steps + iterations'
    /\ train_calls' = Append(train_calls, iterations')
    /\ events' = Append(events, "train")
    /\ pc' = "advance"
    /\ UNCHANGED << args, err, agent, training_iters, max_timesteps, curr_epoch,
                    eval_res, evaluations, best_score, eval_file, best_file,
                    model_file, twin, epochs >>
    /\ UNCHANGED ev_vars

\* line 110 with `agent` never assigned: UnboundLocalError
TrainUnbound ==
    /\ pc = "train"
    /\ agent = "unbound"
    /\ iterations' = Iterations(args)
    /\ Raise("UnboundLocalError")
    /\ UNCHANGED << args, agent, agent_steps, training_iters, max_timesteps,
                    curr_epoch, eval_res, evaluations, best_score, eval_file,
                    best_file, model_file, twin, events, train_calls, epochs >>
    /\ UNCHANGED ev_vars

\* line 113-115
Advance ==
    /\ pc = "advance"
    /\ training_iters' = AdvanceIters(training_iters, iterations)
    /\ curr_epoch' = CurrEpoch(training_iters', args)
    /\ pc' = "eval"
    /\ UNCHANGED << args, err, agent, agent_steps, iterations, max_timesteps,
                    eval_res, evaluations, best_score, eval_file, best_file,
                    model_file, twin, events, train_calls, epochs >>
    /\ UNCHANGED ev_vars

\* line 117-118: eval_policy returns
Evaluate ==
    /\ pc = "eval"
    /\ ev_pc = "idle"
    /\ HasRef(args.env_name)
    /\ \E raw \in EvalInputs :
          /\ Len(raw) = args.eval_episodes
          /\ eval_res' = eval_policy_result(args.env_name, raw)
    /\ events' = Append(events, "evaluate")
    /\ pc' = "append"
    /\ UNCHANGED << args, err, agent, agent_steps, iterations, training_iters,
                    max_timesteps, curr_epoch, evaluations, best_score, eval_file,
                    best_file, model_file, twin, train_calls, epochs >>
    /\ UNCHANGED ev_vars

\* line 117 when line 155 raises: the environment has no reference scores
EvaluateFails ==
    /\ pc = "eval"
    /\ ev_pc = "idle"
    /\ ~HasRef(args.env_name)
    /\ Raise("ValueError")
    /\ UNCHANGED << args, agent, agent_steps, iterations, training_iters,
                    max_timesteps, curr_epoch, eval_res, evaluations, best_score,
                    eval_file, best_file, model_file, twin, events, train_calls, epochs >>
    /\ UNCHANGED ev_vars

\* line 119
AppendEvaluation ==
    /\ pc = "append"
    /\ evaluations' = AppendEval(evaluations, eval_res)
    /\ epochs' = Append(epochs, curr_epoch)
    /\ pc' = "save"
    /\ UNCHANGED << args, err, agent, agent_steps, iterations, training_iters,
                    max_timesteps, curr_epoch, eval_res, best_score, eval_file,
                    best_file, model_file, twin, events, train_calls >>
    /\ UNCHANGED ev_vars

\* line 120-123: np.save(eval, evaluations)
SaveHistory(evs) == << evs >>

AfterSave_loop == "loop"
AfterSave == "select"

PersistHistory ==
    /\ pc = "save"
    /\ eval_file' = SaveHistory(evaluations)
    /\ events' = Append(events, "history")
    /\ pc' = AfterSave
    /\ UNCHANGED << args, err, agent, agent_steps, iterations, training_iters,
                    max_timesteps, curr_epoch, eval_res, evaluations, best_score,
                    best_file, model_file, twin, train_calls, epochs >>
    /\ UNCHANGED ev_vars

\* line 125-133
Select ==
    /\ pc = "select"
    /\ LET new == consider(decision, args.save_best_model, eval_res, curr_epoch, agent_steps)
       IN  /\ best_score' = new.best_score
           /\ best_file' = new.best_file
           /\ model_file' = new.model_file
    /\ twin' = consider(twin, ~args.save_best_model, eval_res, curr_epoch, agent_steps)
    /\ events' = Append(events, "select")
    /\ pc' = "loop"
    /\ UNCHANGED << args, err, agent, agent_steps, iterations, training_iters,
                    max_timesteps, curr_epoch, eval_res, evaluations, eval_file,
                    train_calls, epochs >>
    /\ UNCHANGED ev_vars

Next ==
    \/ MakeEnv
    \/ MakeEnvFails
    \/ Dispatch
    \/ LoopEnter
    \/ LoopExit
    \/ Train
    \/ TrainUnbound
    \/ Advance
    \/ Evaluate
    \/ EvaluateFails
    \/ AppendEvaluation
    \/ PersistHistory
    \/ Select

Spec == Init /\ [][Next]_vars

\* The interpreter runs the next statement whenever there is one.
FairSpec == Spec /\ WF_vars(Next)

\* ------------------------------------------------------------------ eval_policy
\* eval_policy step by step, called from line 117 of the first cycle of a
\* run with num_epochs = num_steps_per_epoch = eval_freq = 1.
EvalArgSpace ==
    [ num_epochs : {1},
      num_steps_per_epoch : {1},
      eval_freq : {1},
      eval_episodes : 1..MaxEpisodes,
      save_best_model : {FALSE},
      algo : {"bc"},
      env_name : {"scaled", "affine", "clipped", "noref"} ]

InitEval ==
    /\ args \in EvalArgSpace
    /\ pc = "eval"
    /\ err = ""
    /\ agent = "bc"
    /\ agent_steps = 1
    /\ iterations = 1
    /\ training_iters = 1
    /\ max_timesteps = 1
    /\ curr_epoch = 1
    /\ eval_res = <<>>
    /\ evaluations = <<>>
    /\ best_score = best_score_init
    /\ eval_file = <<>>
    /\ best_file = <<>>
    /\ model_file = <<>>
    /\ twin = [ best_score |-> best_score_init, best_file |-> <<>>, model_file |-> <<>> ]
    /\ events = << "train" >>
    /\ train_calls = << 1 >>
    /\ epochs = <<>>
    /\ ev_pc = "call"
    /\ scores = <<>>
    /\ traj_return = 0
    /\ done = FALSE
    /\ ret = <<>>
    /\ resets = 0
    /\ rewards_log = <<>>

\* line 139-142
EvMake ==
    /\ ev_pc = "call"
    /\ scores' = <<>>
    /\ ev_pc' = "for"
    /\ UNCHANGED << traj_return, done, ret, resets, rewards_log >>
    /\ UNCHANGED ctl_vars

\* line 143-145: one more episode, reset
EvEpisodeStart ==
    /\ ev_pc = "for"
    /\ Len(scores) < args.eval_episodes
    /\ traj_return' = 0
    /\ done' = FALSE
    /\ resets' = resets + 1
    /\ rewards_log' = Append(rewards_log, <<>>)
    /\ ev_pc' = "while"
    /\ UNCHANGED << scores, ret >>
    /\ UNCHANGED ctl_vars

\* line 146-149: one step of the environment; the environment ends an episode
\* after at most MaxEpisodeLen steps
EvStep ==
    /\ ev_pc = "while"
    /\ ~done
    /\ \E reward \in StepRewards, d \in BOOLEAN :
          /\ Len(rewards_log[Len(rewards_log)]) + 1 >= MaxEpisodeLen => d
          /\ traj_return' = traj_return + reward
          /\ done' = d
          /\ rewards_log' = [rewards_log EXCEPT ![Len(rewards_log)] = Append(@, reward)]
    /\ UNCHANGED << ev_pc, scores, ret, resets >>
    /\ UNCHANGED ctl_vars

\* line 146 exits, line 150
EvEpisodeEnd ==
    /\ ev_pc = "while"
    /\ done
    /\ scores' = Append(scores, traj_return)
    /\ ev_pc' = "for"
    /\ UNCHANGED << traj_return, done, ret, resets, rewards_log >>
    /\ UNCHANGED ctl_vars

\* line 152-160
EvAggregate ==
    /\ ev_pc = "for"
    /\ Len(scores) >= args.eval_episodes
    /\ HasRef(args.env_name)
    /\ ret' = eval_policy_result(args.env_name, scores)
    /\ ev_pc' = "return"
    /\ UNCHANGED << scores, traj_return, done, resets, rewards_log >>
    /\ UNCHANGED ctl_vars

\* line 155 raises: no reference scores
EvAggregateFails ==
    /\ ev_pc = "for"
    /\ Len(scores) >= args.eval_episodes
    /\ ~HasRef(args.env_name)
    /\ ev_pc' = "raise"
    /\ UNCHANGED << scores, traj_return, done, ret, resets, rewards_log >>
    /\ UNCHANGED ctl_vars

NextEval ==
    \/ EvMake
    \/ EvEpisodeStart
    \/ EvStep
    \/ EvEpisodeEnd
    \/ EvAggregate
    \/ EvAggregateFails

SpecEval == InitEval /\ [][NextEval]_vars

\* ------------------------------------------------------------------ properties
Positive(a) == a.num_epochs >= 1 /\ a.num_steps_per_epoch >= 1 /\ a.eval_freq >= 1

\* No call of the run raises: the environment and the algorithm are known
\* and the environment has reference scores.
CallsReturn(a) == Registered(a.env_name) /\ HasRef(a.env_name) /\ a.algo \in KnownAlgos

ConfigError(a) == ~Registered(a.env_name) \/ ~HasRef(a.env_name) \/ a.algo \notin KnownAlgos

\* The cycles whose selection step has run are exactly those appended.
SelectionDone == pc \in {"loop", "train", "advance", "eval", "Done"} /\ evaluations # <<>>

MaxNorm(evs) ==
    CHOOSE m \in {evs[i][3] : i \in 1..Len(evs)} :
        \A j \in 1..Len(evs) : RGeq(m, evs[j][3])

LastArgMax(evs) ==
    CHOOSE i \in 1..Len(evs) :
        /\ evs[i][3] = MaxNorm(evs)
        /\ \A j \in (i + 1)..Len(evs) : evs[j][3] # MaxNorm(evs)

RECURSIVE SumIntsTo(_, _)
SumIntsTo(xs, n) == IF n = 0 THEN 0 ELSE SumIntsTo(xs, n - 1) + xs[n]

SumInts(xs) == SumIntsTo(xs, Len(xs))

Count(xs, e) == Cardinality({i \in 1..Len(xs) : xs[i] = e})

CyclePattern == << "train", "evaluate", "history", "select" >>

\* C1: in a run with positive settings, after the selection step of every
\* cycle best_score.txt exists, its normalized average is the maximum of the
\* normalized averages of all evaluations so far, and its epoch is that of
\* the last cycle attaining it.
C1_BestScoreInvariant ==
    (Positive(args) /\ SelectionDone) =>
        /\ best_file # <<>>
        /\ best_file[1].best_normalized_score_avg = MaxNorm(evaluations)
        /\ best_file[1].epoch = epochs[LastArgMax(evaluations)]

\* C2: the selection step overwrites the best-score record with the current
\* cycle's epoch and scores and sets best_score exactly when the new
\* normalized average is >= the running best (a tie updates); otherwise
\* best_score, the record and the checkpoint are unchanged.
C2_SelectionRule ==
    [][ pc = "select" =>
          IF RGeq(eval_res[3], best_score)
          THEN /\ best_score' = eval_res[3]
               /\ best_file' = << [ epoch |-> curr_epoch,
                                    best_normalized_score_avg |-> eval_res[3],
                                    best_normalized_score_std |-> eval_res[4],
                                    best_raw_score_avg |-> eval_res[1],
                                    best_raw_score_std |-> eval_res[2] ] >>
               /\ model_file' = IF args.save_best_model THEN << agent_steps >> ELSE model_file
          ELSE UNCHANGED << best_score, best_file, model_file >> ]_vars

\* a tie with the running best has overwritten the record
C2_Witness ==
    /\ pc = "loop"
    /\ Len(evaluations) >= 2
    /\ evaluations[Len(evaluations)][3] = evaluations[Len(evaluations) - 1][3]
    /\ evaluations[Len(evaluations)][2] # evaluations[Len(evaluations) - 1][2]
    /\ best_file # <<>>
    /\ best_file[1].epoch = epochs[Len(epochs)]
    /\ best_file[1].best_raw_score_std = evaluations[Len(evaluations)][2]

\* C3: with positive settings and num_epochs a multiple of eval_freq, every
\* train call has eval_freq * num_steps_per_epoch iterations, cycle k reports
\* curr_epoch = eval_freq * k, every evaluation follows exactly one train
\* call, and a full run has num_epochs / eval_freq cycles.
C3_Cadence ==
    (Positive(args) /\ args.num_epochs % args.eval_freq = 0) =>
        /\ \A k \in 1..Len(train_calls) :
              train_calls[k] = args.eval_freq * args.num_steps_per_epoch
        /\ \A k \in 1..Len(epochs) : epochs[k] = args.eval_freq * k
        /\ Len(evaluations) <= Len(train_calls)
        /\ Len(train_calls) <= Len(evaluations) + 1
        /\ (pc = "Done" =>
              /\ Len(evaluations) * args.eval_freq = args.num_epochs
              /\ Len(train_calls) = Len(evaluations)
              /\ Len(epochs) = Len(evaluations))

C3_Witness ==
    /\ pc = "Done"
    /\ args.num_epochs = 2
    /\ args.eval_freq = 1
    /\ args.num_steps_per_epoch = 2
    /\ Len(evaluations) = 2
    /\ train_calls = << 2, 2 >>
    /\ epochs = << 1, 2 >>

\* C4: no burst is clamped; at Done, for positive settings, training_iters
\* exceeds the budget when num_epochs is not a multiple of eval_freq, and
\* the excess is between 0 and (eval_freq - 1) * num_steps_per_epoch.
C4_Overshoot ==
    Positive(args) =>
        /\ \A k \in 1..Len(train_calls) :
              train_calls[k] = args.eval_freq * args.num_steps_per_epoch
        /\ (pc = "Done" =>
              LET excess == training_iters - args.num_epochs * args.num_steps_per_epoch
              IN  /\ excess >= 0
                  /\ excess <= (args.eval_freq - 1) * args.num_steps_per_epoch
                  /\ (args.num_epochs % args.eval_freq # 0 => excess > 0))

C4_Witness ==
    /\ pc = "Done"
    /\ args.num_epochs = 3
    /\ args.eval_freq = 2
    /\ args.num_steps_per_epoch = 2
    /\ training_iters = 8

C6_ConfigErrorsAbortBeforeTraining ==
    (ConfigError(args) /\ pc = "Error") => agent_steps = 0

\* C7: the run and the run that differs only in save_best_model have the
\* same best_score and the same best-score record at every step; a checkpoint
\* is written only with the flag set, and then exactly at the updates.
C7_FlagDoesNotInfluenceDecision ==
    /\ twin.best_score = best_score
    /\ twin.best_file = best_file
    /\ (~args.save_best_model => model_file = <<>>)
    /\ (args.save_best_model => twin.model_file = <<>>)
    /\ LET saved == IF args.save_best_model THEN model_file ELSE twin.model_file
       IN  /\ (saved = <<>>) = (best_file = <<>>)
           /\ saved # <<>> => saved[1] = best_file[1].epoch * args.num_steps_per_epoch

C7_Witness ==
    /\ ~args.save_best_model
    /\ Len(evaluations) >= 2
    /\ best_file # <<>>
    /\ best_file[1].epoch = epochs[1]
    /\ model_file = <<>>
    /\ twin.model_file = << args.eval_freq * args.num_steps_per_epoch >>
    /\ pc = "Done"

\* C8: eval_policy runs exactly eval_episodes episodes, each one reset and
\* the sum of its steps' rewards; it returns the mean of the raw returns,
\* the normalizer applied to that mean (not the mean of the normalized
\* returns), and the deviation of the normalized returns; raw returns
\* [10, 20, 30] with f(r) = r / 100 give 20 and 1/5.
C8_Aggregation ==
    ev_pc = "return" =>
        LET n == args.eval_episodes
            raw == [i \in 1..Len(rewards_log) |-> R(SumInts(rewards_log[i]))]
            f(x) == get_normalized_score[args.env_name, x]
            mean == RDivInt[RSum(raw), n]
        IN  /\ Len(rewards_log) = n
            /\ resets = n
            /\ Len(scores) = n
            /\ \A i \in 1..n : scores[i] = SumInts(rewards_log[i])
            /\ ret[1] = mean
            /\ ret[2] = np_std[raw]
            /\ ret[3] = f(mean)
            /\ ret[4] = np_std[[i \in 1..n |-> f(raw[i])]]
            /\ (scores = << 10, 20, 30 >> /\ args.env_name = "scaled") =>
                  ret = << <<20, 1>>, <<200, 3>>, <<1, 5>>, <<1, 150>> >>

C8_Witness ==
    /\ ev_pc = "return"
    /\ args.env_name = "scaled"
    /\ scores = << 10, 20, 30 >>
    /\ ret[1] = <<20, 1>>
    /\ ret[3] = <<1, 5>>

\* The state part of C9.
C9_HistoryState ==
    /\ Len(evaluations) = Count(events, "evaluate") - (IF pc = "append" THEN 1 ELSE 0)
    /\ Len(epochs) = Len(evaluations)
    /\ pc = "save" => eval_file = (IF Len(evaluations) = 1 THEN <<>>
                                    ELSE << SubSeq(evaluations, 1, Len(evaluations) - 1) >>)
    /\ (pc # "save" /\ evaluations # <<>>) => eval_file = << evaluations >>
    /\ best_file # <<>> =>
          /\ eval_file # <<>>
          /\ \E i \in 1..Len(eval_file[1]) :
                best_file[1] = best_res(eval_file[1][i], epochs[i])

\* The step part of C9.
C9_AppendOnly ==
    /\ Len(evaluations') >= Len(evaluations)
    /\ \A i \in 1..Len(evaluations) : evaluations'[i] = evaluations[i]
    /\ pc # "append" => evaluations' = evaluations

\* C9: evaluations has one entry per completed evaluation, entries once
\* appended never change, the history file equals the whole list before the
\* selection step runs, and the best-score record always describes an
\* evaluation of the persisted history.
C9_History == [] C9_HistoryState /\ [][C9_AppendOnly]_vars

C9_Witness ==
    /\ pc = "select"
    /\ Len(evaluations) = 3
    /\ eval_file = << evaluations >>
    /\ best_file # <<>>
    /\ best_file[1].epoch = epochs[2]

Quiet == UNCHANGED << events, train_calls, evaluations, eval_file, best_file, model_file >>

Stated10 == CallsReturn(args) /\ args.num_steps_per_epoch >= 1

Amended10 == Stated10 /\ args.eval_freq >= 1

\* C10 as stated, in the part a finite run refutes: for all num_epochs >= 0,
\* num_steps_per_epoch >= 1 and eval_freq >= 0, when every call returns,
\* training_iters strictly increases in every cycle (so the loop reaches
\* Done), and after Done nothing more is trained, evaluated or written.
C10_AsStated ==
    /\ [][ (Stated10 /\ pc = "advance") => training_iters' > training_iters ]_vars
    /\ [][ pc = "Done" => Quiet ]_vars

\* C10 amended: the same for eval_freq >= 1, and the loop reaches Done.
C10_Terminates ==
    /\ <>(Amended10 => pc = "Done")
    /\ [][ (Amended10 /\ pc = "advance") => training_iters' > training_iters ]_vars
    /\ [][ pc = "Done" => Quiet ]_vars

C10_Witness ==
    /\ pc = "Done"
    /\ CallsReturn(args)
    /\ args.eval_freq = 2
    /\ args.num_epochs = 3
    /\ args.num_steps_per_epoch = 1
    /\ training_iters = 4
    /\ Len(evaluations) = 2

====
